---- MODULE Spec2Model ----
(***************************************************************************)
(* Model of sosia's cache layer (create_cache, cache_insert and the        *)
(* *_in_cache key partitioners) and of the recursive batch query executor  *)
(* stacked_query of sosia/utils/queries.py.                                *)
(***************************************************************************)
EXTENDS Integers, Sequences, FiniteSets, TLC

\* ------------------------------------------------------------------ bounds
MaxReq == 2         \* longest requested key collection
MaxRows == 2        \* most rows the cache file holds over all tables
MaxBatch == 1       \* most rows handed to one cache_insert call
MaxGroup == 3       \* largest identifier group handed to stacked_query
MaxK == 3           \* largest size threshold of the synthetic adapter
MaxFail == 7        \* most failing calls of a run whose adapter fails at will


\* ------------------------------------------------------------ cache layout
\* The four record tables of the cache file (CACHE_TABLES).
CACHE_TABLES == {"authors", "author_year", "author_size", "sources"}

\* The author profiles, the author and its years, and the source and its
\* years that the cache tests ask for.
expected_auth == {"53164702100", "57197093438"}
year == 2016
expected_years == {2010, 2017}
expected_sources == {22900}
source_years == {2010, 2005}

\* The payload of a row: the publication counts pubs1 and pubs2 of the tests.
Payloads == {0, 6}

\* Primary key of a table: (auth_id) for authors, (id, year) otherwise.
KeysOf(table) ==
    CASE table = "authors" -> {<<a>> : a \in expected_auth}
      [] table = "author_year" -> {<<a, year>> : a \in expected_auth}
      [] table = "author_size" -> {<<"53164702100", y>> : y \in expected_years}
      [] OTHER -> {<<src, y>> : src \in expected_sources, y \in source_years}

RowsOf(table) == [key : KeysOf(table), val : Payloads]

RECURSIVE SeqsUpTo(_, _)
SeqsUpTo(S, n) ==
    IF n = 0 THEN {<< >>}
    ELSE LET shorter == SeqsUpTo(S, n - 1)
         IN  shorter \cup {Append(s, x) : s \in {t \in shorter : Len(t) = n - 1}, x \in S}

Range(s) == {s[j] : j \in 1..Len(s)}

Keys(rowset) == {r.key : r \in rowset}

VARIABLES
    exists,     \* the tables present in the cache file
    rows,       \* rows[table]: the set of stored rows of a table
    inserted,   \* inserted[table]: the keys handed to cache_insert since the last reset
    out,        \* the most recent call and what it returned
    stack,      \* stacked_query: the call stack, innermost frame last
    acc,        \* stacked_query: the list object the results are appended to
    ret,        \* stacked_query: the value a finished call hands back
    log,        \* stacked_query: the adapter calls of the current run, in order
    run,        \* stacked_query: the arguments and adapter of the current run
    wq,         \* query: the call in progress, its attempts and its outcome
    jr          \* query_journal: the call in progress and the years left

cacheVars == <<exists, rows, inserted, out>>
queryVars == <<stack, acc, ret, log, run>>
callVars == <<wq, jr>>
vars == <<exists, rows, inserted, out, stack, acc, ret, log, run, wq, jr>>

NoCall == [op |-> "none"]
Idle == [mode |-> "idle"]
NoQuery == [pc |-> "idle"]
NoJournal == [pc |-> "idle"]

TotalRows(rs) ==
    Cardinality(rs["authors"]) + Cardinality(rs["author_year"])
    + Cardinality(rs["author_size"]) + Cardinality(rs["sources"])

\* --------------------------------------------------------------- create_cache
\* DROP TABLE IF EXISTS: the table and its rows are gone.
DropTable(db, table) ==
    [ex |-> db.ex \ {table}, rows |-> [db.rows EXCEPT ![table] = {}]]

\* CREATE TABLE IF NOT EXISTS: an existing table is left as it is.
CreateTable(db, table) ==
    IF table \in db.ex THEN db
    ELSE [ex |-> db.ex \cup {table}, rows |-> db.rows]

\* The drop flag is not looked at.
CreateOneNoDrop(db, table, drop) == CreateTable(db, table)

\* The table is dropped whatever the drop flag says.
CreateOneAlwaysDrop(db, table, drop) == CreateTable(DropTable(db, table), table)

\* One pass of the loop body of create_cache for one table.
CreateOne(db, table, drop) ==
    CreateTable(IF drop THEN DropTable(db, table) ELSE db, table)

RECURSIVE CreateAll(_, _, _)
CreateAll(db, todo, drop) ==
    IF todo = {} THEN db
    ELSE LET table == CHOOSE t \in todo : TRUE
         IN  CreateAll(CreateOne(db, table, drop), todo \ {table}, drop)

create_cache(drop) ==
    /\ LET db == CreateAll([ex |-> exists, rows |-> rows], CACHE_TABLES, drop)
       IN  /\ exists' = db.ex
           /\ rows' = db.rows
           /\ out' = [op |-> "create_cache", drop |-> drop, had |-> TotalRows(rows)]
    /\ inserted' = IF drop THEN [t \in CACHE_TABLES |-> {}] ELSE inserted
    /\ UNCHANGED <<queryVars, callVars>>

\* --------------------------------------------------------------- cache_insert
\* INSERT OR REPLACE: the stored row of the key is overwritten.
InsertOrReplace(rowset, r) == {x \in rowset : x.key # r.key} \cup {r}

\* INSERT OR IGNORE of one row: a row whose primary key is stored is skipped.
InsertRow(rowset, r) ==
    IF r.key \in Keys(rowset) THEN rowset ELSE rowset \cup {r}

RECURSIVE InsertAll(_, _)
InsertAll(rowset, batch) ==
    IF batch = << >> THEN rowset
    ELSE InsertAll(InsertRow(rowset, Head(batch)), Tail(batch))

cache_insert(table, batch) ==
    /\ table \in exists
    /\ LET new == InsertAll(rows[table], batch)
       IN  /\ TotalRows([rows EXCEPT ![table] = new]) <= MaxRows
           /\ rows' = [rows EXCEPT ![table] = new]
    /\ inserted' = [inserted EXCEPT ![table] = @ \cup Keys(Range(batch))]
    /\ out' = [op |-> "cache_insert", table |-> table, batch |-> batch]
    /\ UNCHANGED <<exists, queryVars, callVars>>

\* ------------------------------------------------------------ key partitioner
\* Nothing is collapsed.
DedupNone(s) == s

\* Deduplicate while keeping the order of first occurrence.
RECURSIVE Dedup(_)
Dedup(s) ==
    IF s = << >> THEN << >>
    ELSE LET front == Dedup(SubSeq(s, 1, Len(s) - 1))
             last == s[Len(s)]
         IN  IF last \in Range(front) THEN front ELSE Append(front, last)

\* lookup: the stored rows of a table whose key is among `keys`.
Lookup(table, keys) == {r \in rows[table] : r.key \in keys}

InCache(table, req) == Lookup(table, Range(Dedup(req)))

\* The keys found are not taken out.
ToSearchAll(table, req) == Dedup(req)

\* A key counts as found when its identifier is stored with any year.
ToSearchById(table, req) ==
    LET found == {k[1] : k \in Keys(InCache(table, req))}
        NotFound(k) == k[1] \notin found
    IN  SelectSeq(Dedup(req), NotFound)

ToSearch(table, req) ==
    LET found == Keys(InCache(table, req))
        NotFound(k) == k \notin found
    IN  SelectSeq(Dedup(req), NotFound)

Partitioned == {"authors", "author_year", "sources"}

\* authors_in_cache / author_year_in_cache / sources_in_cache
keys_in_cache(table, req) ==
    /\ table \in Partitioned
    /\ table \in exists
    /\ out' = [op |-> "in_cache", table |-> table, req |-> req,
               incache |-> InCache(table, req), tosearch |-> ToSearch(table, req)]
    /\ UNCHANGED <<exists, rows, inserted, queryVars, callVars>>

\* author_size_in_cache returns the stored rows only.
author_size_in_cache(req) ==
    /\ "author_size" \in exists
    /\ out' = [op |-> "size_in_cache", table |-> "author_size", req |-> req,
               incache |-> InCache("author_size", req)]
    /\ UNCHANGED <<exists, rows, inserted, queryVars, callVars>>

\* The program is single-threaded: a call is made when no other call is
\* running and the value of the call before it has been taken.
Free == run = Idle /\ out = NoCall

\* The caller takes what the cache call returned.
Return ==
    /\ run = Idle
    /\ out # NoCall
    /\ out' = NoCall
    /\ UNCHANGED <<exists, rows, inserted, queryVars, callVars>>

CacheCall ==
    /\ Free
    /\ \/ \E drop \in BOOLEAN : create_cache(drop)
       \/ \E table \in CACHE_TABLES : \E batch \in SeqsUpTo(RowsOf(table), MaxBatch) :
             cache_insert(table, batch)
       \/ \E table \in Partitioned : \E req \in SeqsUpTo(KeysOf(table), MaxReq) :
             keys_in_cache(table, req)
       \/ \E req \in SeqsUpTo(KeysOf("author_size"), MaxReq) : author_size_in_cache(req)

CacheNext == CacheCall \/ Return

\* -------------------------------------------------------------- stacked_query
NoTotal == 0        \* total=None; `if total:` is false for it
None == "None"
ListRef == "res"    \* a reference to the one list object `acc`
Waiting == [kind |-> "waiting"]

\* groupeids = ["*" + str(n) for n in range(0, 10)], written as 0..9
groupeids == [n \in 1..10 |-> n - 1]

\* The template the caller passes: the slot is filled with the identifiers.
CallerTemplate == [ids |-> << >>, scopes |-> << >>]

\* query.substitute(fill=joiner.join(group)): a caller template takes the
\* group as its identifiers, a template grown by " AND EID($fill)" takes it
\* as the tokens of its last scoping clause.
Substitute(query, group) ==
    IF query.scopes = << >>
    THEN [ids |-> group, scopes |-> << >>]
    ELSE [ids |-> query.ids,
          scopes |-> [query.scopes EXCEPT ![Len(query.scopes)] = group]]

\* The marker is never seen.
HasScopeNever(q) == FALSE

\* "AND EID(" in q
HasScope(q) == q.scopes # << >>

\* Template(q + " AND EID($fill)"): one more scoping clause, its slot open.
ScopedTemplate(q) == [ids |-> q.ids, scopes |-> Append(q.scopes, << >>)]

\* What the service answers to a query that succeeds: for each identifier
\* one record covering the suffix tokens asked for (all ten when unscoped).
Results(q) ==
    IF q.scopes = << >>
    THEN [j \in 1..Len(q.ids) |-> [id |-> q.ids[j], toks |-> Range(groupeids)]]
    ELSE LET toks == q.scopes[Len(q.scopes)]
         IN  [j \in 1..Len(toks) |-> [id |-> q.ids[1], toks |-> {toks[j]}]]

Fails(l) == Cardinality({j \in 1..Len(l) : ~l[j].ok})

\* The outcomes the adapter of the current run can give for query q:
\* "threshold" raises for more than k identifiers, "down" raises always,
\* "free" raises whenever it likes.
Outcomes(q) ==
    CASE run.mode = "threshold" -> {Len(q.ids) <= run.k}
      [] run.mode = "down" -> {FALSE}
      [] OTHER -> {TRUE} \cup (IF Fails(log) < MaxFail THEN {FALSE} ELSE {})

Frame(group, query, i, total) ==
    [group |-> group, query |-> query, i |-> i, total |-> total,
     pc |-> "try", res |-> ListRef, params |-> << >>]

Top == stack[Len(stack)]
Pop == SubSeq(stack, 1, Len(stack) - 1)

\* mid = len(group) // 2
Mid(group) == Len(group) \div 2

\* The first half loses its last element.
FirstHalfShort(group) == SubSeq(group, 1, Mid(group) - 1)

\* group[:mid]
FirstHalf(group) == SubSeq(group, 1, Mid(group))

\* The second half starts one element early.
SecondHalfEarly(group) == SubSeq(group, Mid(group), Len(group))

\* group[mid:]
SecondHalf(group) == SubSeq(group, Mid(group) + 1, Len(group))

\* A caller starts stacked_query(group, res, query, joiner, func, refresh,
\* i=0, total) with the identifiers 1..n; res holds `prior` earlier records.
Start(n, total, prior, mode, k) ==
    /\ Free
    /\ run' = [mode |-> mode, k |-> k, n |-> n, total |-> total, prior |-> prior]
    /\ stack' = <<Frame([j \in 1..n |-> j], CallerTemplate, 0, total)>>
    /\ acc' = [j \in 1..prior |-> [id |-> 0, toks |-> Range(groupeids)]]
    /\ log' = << >>
    /\ ret' = Waiting
    /\ UNCHANGED <<cacheVars, callVars>>

\* The synthetic adapter of a size threshold, or a service that is down.
StartThreshold ==
    \E n \in 1..MaxGroup, k \in 0..MaxK : \E total \in {NoTotal, n} :
        Start(n, total, 0, IF k = 0 THEN "down" ELSE "threshold", k)

\* An adapter that fails at will, or a service that is down.
StartFree ==
    \E n \in 1..MaxGroup, prior \in 0..1, mode \in {"free", "down"} :
        \E total \in {NoTotal, n} : Start(n, total, prior, mode, 0)

\* The new records are put in front of the list.
ExtendFront(res, new) == new \o res

\* res.extend(...)
Extend(res, new) == res \o new

\* The counter goes up by one for each successful call.
AdvanceOne(i, group) == i + 1

\* i += len(group)
Advance(i, group) == i + Len(group)

\* The fallback tier goes on counting with the caller's total.
FallbackTotalKept(total) == total

\* "total": None in the params of the fallback tier
FallbackTotal(total) == NoTotal

\* Lines 222-250 up to the first recursive call or the return: the body of
\* one call, with the adapter succeeding (ok) or raising Scopus400Error,
\* ScopusQueryError or Scopus500Error.
Body(f, q, ok) ==
    IF ok THEN
        /\ acc' = Extend(acc, Results(q))
        /\ stack' = Pop
        /\ ret' = [kind |-> "return", res |-> f.res,
                   i |-> IF f.total # NoTotal THEN Advance(f.i, f.group) ELSE f.i]
    ELSE IF Len(f.group) > 1 THEN
        LET params == [group |-> SecondHalf(f.group), query |-> f.query,
                       total |-> f.total]
        IN  /\ stack' = Append(Pop, [f EXCEPT !.pc = "first", !.params = params])
                        \o <<Frame(FirstHalf(f.group), f.query, f.i, f.total)>>
            /\ UNCHANGED <<acc, ret>>
    ELSE IF ~HasScope(q) THEN
        LET tmpl == ScopedTemplate(q)
            params == [group |-> SecondHalf(groupeids), query |-> tmpl,
                       total |-> FallbackTotal(f.total)]
        IN  /\ stack' = Append(Pop, [f EXCEPT !.pc = "first", !.params = params])
                        \o <<Frame(FirstHalf(groupeids), tmpl, f.i, FallbackTotal(f.total))>>
            /\ UNCHANGED <<acc, ret>>
    ELSE
        /\ stack' = Pop
        /\ ret' = [kind |-> "return", res |-> None, i |-> f.i]
        /\ UNCHANGED acc

\* The errors with which the adapter refuses a query: too long a request,
\* too many results, service unavailable.
ScopusErrors == {"Scopus400Error", "ScopusQueryError", "Scopus500Error"}

\* The handler lets a service failure through.
HandledNo500 == {"Scopus400Error", "ScopusQueryError"}

\* except (Scopus400Error, ScopusQueryError, Scopus500Error):
Handled == {"Scopus400Error", "ScopusQueryError", "Scopus500Error"}

\* An error the except clause does not name leaves every enclosing call.
Escape(err) ==
    /\ stack' = << >>
    /\ ret' = [kind |-> "raise", res |-> None, i |-> 0]
    /\ UNCHANGED acc

Attempt ==
    /\ run # Idle
    /\ stack # << >>
    /\ Top.pc = "try"
    /\ LET f == Top
           q == Substitute(f.query, f.group)
       IN  \E ok \in Outcomes(q) :
              /\ log' = Append(log, [q |-> q, ok |-> ok, depth |-> Len(stack)])
              /\ \E err \in (IF ok THEN {"none"} ELSE ScopusErrors) :
                     IF ok \/ err \in Handled
                     THEN Body(f, q, ok)
                     ELSE Escape(err)
    /\ UNCHANGED <<cacheVars, callVars, run>>

\* `res, i = stacked_query(**params)`: the frame that made the call takes
\* the returned pair; after the first call it makes the second one with
\* params["res"] (still the list) and the returned i, after the second one
\* it returns its own res and i.
Resume ==
    /\ stack # << >>
    /\ ret.kind = "return"
    /\ LET f == Top
       IN  IF f.pc = "first"
           THEN /\ stack' = Append(Pop, [f EXCEPT !.pc = "second", !.res = ret.res,
                                                  !.i = ret.i])
                             \o <<Frame(f.params.group, f.params.query, ret.i,
                                        f.params.total)>>
                /\ ret' = Waiting
           ELSE /\ stack' = Pop
                /\ ret' = [kind |-> "return", res |-> ret.res, i |-> ret.i]
    /\ UNCHANGED <<cacheVars, callVars, acc, log, run>>

\* The caller has the returned pair, or the error; the run is over.
Finish ==
    /\ run # Idle
    /\ stack = << >>
    /\ ret.kind \in {"return", "raise"}
    /\ run' = Idle
    /\ ret' = Waiting
    /\ acc' = << >>
    /\ log' = << >>
    /\ UNCHANGED <<cacheVars, callVars, stack>>

\* ---------------------------------------------------------------------- query
\* q_type: the two allowed values, and one that is not allowed.
QueryTypes == {"author", "docs", "journal"}

\* A response of the service that cannot be decoded.
DecodeErrors == {"KeyError", "UnicodeDecodeError", "ValueError"}

\* except (KeyError, UnicodeDecodeError, ValueError):
QueryHandled == {"KeyError", "UnicodeDecodeError", "ValueError"}

\* The error class that the docstring of query names.
UnknownValueDocumented == "ValueError"

\* raise Exception("Unknown value provided.")
UnknownValue == "Exception"

\* What the try block of one call of query can do: contact the service,
\* which answers, answers what cannot be decoded, or refuses the query;
\* for "docs" an answer may hold a coverDate whose year is not an integer;
\* for any other q_type nothing is contacted and an error is raised.
TryOutcomes(q_type) ==
    LET Contact == {[contacted |-> TRUE, svc |-> o,
                     err |-> IF o = "ok" THEN "none" ELSE o] :
                       o \in {"ok"} \cup DecodeErrors \cup ScopusErrors}
    IN  CASE q_type = "author" -> Contact
          [] q_type = "docs" ->
                Contact \cup {[contacted |-> TRUE, svc |-> "ok", err |-> "ValueError"]}
          [] OTHER -> {[contacted |-> FALSE, svc |-> "none", err |-> UnknownValue]}

\* A caller calls query(q_type, q, refresh), first_try left at True.
query_call(q_type, refresh) ==
    /\ Free
    /\ wq = NoQuery
    /\ jr = NoJournal
    /\ wq' = [pc |-> "try", q_type |-> q_type, refresh |-> refresh,
              first_try |-> TRUE, attempts |-> << >>, result |-> "none"]
    /\ UNCHANGED <<cacheVars, queryVars, jr>>

QueryCall == \E q_type \in QueryTypes, refresh \in BOOLEAN : query_call(q_type, refresh)

\* Lines 122-136: the try block and its handler. The handler of the first
\* try calls query(q_type, q, True, False) and returns what it returns; the
\* handler of the second try passes, and the function returns None.
query_try ==
    /\ wq.pc = "try"
    /\ \E o \in TryOutcomes(wq.q_type) :
          LET attempts == Append(wq.attempts,
                                 [refresh |-> wq.refresh, first_try |-> wq.first_try,
                                  contacted |-> o.contacted, svc |-> o.svc,
                                  err |-> o.err])
          IN  wq' = IF o.err = "none"
                    THEN [wq EXCEPT !.attempts = attempts, !.pc = "returned",
                                    !.result = "res"]
                    ELSE IF o.err \notin QueryHandled
                    THEN [wq EXCEPT !.attempts = attempts, !.pc = "raised",
                                    !.result = o.err]
                    ELSE IF wq.first_try
                    THEN [wq EXCEPT !.attempts = attempts, !.refresh = TRUE,
                                    !.first_try = FALSE]
                    ELSE [wq EXCEPT !.attempts = attempts, !.pc = "returned",
                                    !.result = None]
    /\ UNCHANGED <<cacheVars, queryVars, jr>>

\* The caller has the value, or the error, of query.
query_return ==
    /\ wq.pc \in {"returned", "raised"}
    /\ wq' = NoQuery
    /\ UNCHANGED <<cacheVars, queryVars, jr>>

\* -------------------------------------------------------------- query_journal
\* The years asked for: the years of the source, in any order, or one of them.
JournalYears ==
    {ys \in SeqsUpTo(source_years, Cardinality(source_years)) :
        ys # << >> /\ \A a, b \in 1..Len(ys) : a # b => ys[a] # ys[b]}

\* What query("docs", ...) hands to query_journal: the list, None, or an
\* error of the service that query does not catch.
QueryResults == {"res", None} \cup ScopusErrors

\* except (ScopusQueryError, Scopus500Error):
JournalHandled == {"ScopusQueryError", "Scopus500Error"}

\* d: the records of each year found in res.
BuildDict(res) ==
    LET OfYear(y) == SelectSeq(res, LAMBDA r : r.id = y)
    IN  [y \in {r.id : r \in Range(res)} |-> OfYear(y)]

\* Lines 159-162: the query for the whole source. Its list goes straight to
\* the loop of lines 169-172; ScopusQueryError and Scopus500Error start the
\* year-wise queries with res = []; any other error leaves query_journal,
\* and so does the TypeError of iterating over None.
journal_call(years) ==
    /\ Free
    /\ wq = NoQuery
    /\ jr = NoJournal
    /\ \E o \in QueryResults :
          IF o = "res" THEN
              LET res == [j \in 1..Len(years) |->
                            [id |-> years[j], toks |-> Range(groupeids)]]
              IN  /\ acc' = res
                  /\ jr' = [pc |-> "return", years |-> years, k |-> 0,
                            fallback |-> FALSE, d |-> BuildDict(res)]
          ELSE IF o \in JournalHandled THEN
              /\ acc' = << >>
              /\ jr' = [pc |-> "loop", years |-> years, k |-> 1,
                        fallback |-> TRUE, d |-> << >>]
          ELSE
              /\ acc' = << >>
              /\ jr' = [pc |-> "raised", years |-> years, k |-> 0,
                        fallback |-> FALSE,
                        d |-> IF o = None THEN "TypeError" ELSE o]
    /\ UNCHANGED <<cacheVars, stack, ret, log, run, wq>>

JournalCall == \E years \in JournalYears : journal_call(years)

\* Lines 164-166: stacked_query([year], res, q, "", partial(query, "docs"),
\* refresh=refresh) is called for the next year, with i and total left at
\* their defaults.
journal_year ==
    /\ jr.pc = "loop"
    /\ run = Idle
    /\ run' = [mode |-> "free", k |-> 0, n |-> 1, total |-> NoTotal,
               prior |-> Len(acc)]
    /\ stack' = <<Frame(<<jr.years[jr.k]>>, CallerTemplate, 0, NoTotal)>>
    /\ ret' = Waiting
    /\ UNCHANGED <<cacheVars, acc, log, wq, jr>>

\* `ext, _ = stacked_query(...)` then `res.extend(ext)` (line 167): ext is
\* the list res itself, or None; after the last year lines 169-172 run.
journal_extend ==
    /\ jr.pc = "loop"
    /\ run # Idle
    /\ stack = << >>
    /\ ret.kind = "return"
    /\ IF ret.res = ListRef
       THEN LET res == Extend(acc, acc)
                last == jr.k = Len(jr.years)
            IN  /\ acc' = res
                /\ jr' = [jr EXCEPT !.k = @ + 1,
                                    !.pc = IF last THEN "return" ELSE "loop",
                                    !.d = IF last THEN BuildDict(res) ELSE << >>]
       ELSE /\ acc' = acc
            /\ jr' = [jr EXCEPT !.pc = "raised", !.d = "TypeError"]
    /\ run' = Idle
    /\ ret' = Waiting
    /\ UNCHANGED <<cacheVars, stack, log, wq>>

\* The caller has d, or the error.
journal_return ==
    /\ jr.pc \in {"return", "raised"}
    /\ jr' = NoJournal
    /\ acc' = << >>
    /\ log' = << >>
    /\ UNCHANGED <<cacheVars, stack, ret, run, wq>>

Init ==
    /\ exists = {}
    /\ rows = [t \in CACHE_TABLES |-> {}]
    /\ inserted = [t \in CACHE_TABLES |-> {}]
    /\ out = NoCall
    /\ stack = << >>
    /\ acc = << >>
    /\ ret = Waiting
    /\ log = << >>
    /\ run = Idle
    /\ wq = NoQuery
    /\ jr = NoJournal

Next ==
    \/ CacheNext
    \/ StartThreshold
    \/ Attempt
    \/ Resume
    \/ Finish

Spec == Init /\ [][Next]_vars

\* The executor alone, driven by an adapter whose every call may fail.
NextFree ==
    \/ StartFree
    \/ Attempt
    \/ Resume
    \/ Finish

SpecFree == Init /\ [][NextFree]_vars

\* The executor alone with the synthetic threshold adapter.
NextThreshold ==
    \/ StartThreshold
    \/ Attempt
    \/ Resume
    \/ Finish

\* The program is sequential and every adapter call comes back: a call
\* that can take its next step takes it.
Progress == WF_vars(Attempt) /\ WF_vars(Resume)

SpecThresholdFair == Init /\ [][NextThreshold]_vars /\ Progress

SpecFreeFair == Init /\ [][NextFree]_vars /\ Progress

\* The query wrapper alone.
NextQuery ==
    \/ QueryCall
    \/ query_try
    \/ query_return

SpecQuery == Init /\ [][NextQuery]_vars

\* query_journal alone, with the executor it calls.
NextJournal ==
    \/ JournalCall
    \/ journal_year
    \/ Attempt
    \/ Resume
    \/ journal_extend
    \/ journal_return

SpecJournal == Init /\ [][NextJournal]_vars

\* ------------------------------------------------------------------ claims
Done == run # Idle /\ stack = << >> /\ ret.kind = "return"

FirstIndex(s, x) == CHOOSE j \in 1..Len(s) : s[j] = x /\ \A h \in 1..(j - 1) : s[h] # x

\* C1: a partitioner call returns incache and tosearch whose keys together
\* are the distinct requested keys and have no key in common; incache is
\* exactly the stored rows of the requested keys; an empty request gives
\* two empty outputs.
C1_PartitionComplete ==
    out.op = "in_cache" =>
        /\ Keys(out.incache) \cup Range(out.tosearch) = Range(out.req)
        /\ Keys(out.incache) \cap Range(out.tosearch) = {}
        /\ out.incache = {r \in rows[out.table] : r.key \in Range(out.req)}
        /\ (out.req = << >> => out.incache = {} /\ out.tosearch = << >>)

C1_Witness ==
    /\ out.op = "in_cache"
    /\ out.incache # {}
    /\ out.tosearch # << >>

\* C2: a key inserted since the last reset is put in incache, and never in
\* tosearch, by every later lookup of its table that asks for it.
C2_LookupAfterInsert ==
    out.op \in {"in_cache", "size_in_cache"} =>
        \A k \in Range(out.req) \cap inserted[out.table] :
            /\ k \in Keys(out.incache)
            /\ (out.op = "in_cache" => k \notin Range(out.tosearch))

C2_Witness ==
    /\ out.op = "in_cache"
    /\ out.req # << >>
    /\ Range(out.req) \subseteq inserted[out.table]
    /\ out.tosearch = << >>

UniqueKeys(rs) ==
    \A t \in CACHE_TABLES : \A r1, r2 \in rs[t] : r1.key = r2.key => r1 = r2

\* C3: cache_insert never fails on a stored key, keeps every stored row as
\* it is (the first payload written stays), adds exactly the new keys, and
\* changes nothing when every key of the batch is stored already; no table
\* ever holds two rows of one key.
C3_InsertOrIgnore ==
    [][/\ UniqueKeys(rows')
       /\ (out'.op = "cache_insert" =>
              LET t == out'.table
                  batchKeys == Keys(Range(out'.batch))
              IN  /\ rows[t] \subseteq rows'[t]
                  /\ Keys(rows'[t]) = Keys(rows[t]) \cup batchKeys
                  /\ (batchKeys \subseteq Keys(rows[t]) => rows' = rows)
                  /\ \A u \in CACHE_TABLES \ {t} : rows'[u] = rows[u])]_vars

C3_Witness ==
    /\ out.op = "cache_insert"
    /\ \E r \in rows[out.table] : \E j \in 1..Len(out.batch) :
          out.batch[j].key = r.key /\ out.batch[j].val # r.val

\* C4: tosearch lists the requested keys that are not stored, each once,
\* in the order of their first occurrence in the request.
C4_ToSearchOrder ==
    out.op = "in_cache" =>
        LET ts == out.tosearch
        IN  /\ Range(ts) = Range(out.req) \ Keys(rows[out.table])
            /\ \A a, b \in 1..Len(ts) :
                  a < b => FirstIndex(out.req, ts[a]) < FirstIndex(out.req, ts[b])

C4_Witness ==
    /\ out.op = "in_cache"
    /\ Len(out.tosearch) = 2
    /\ TotalRows(rows) > 0

\* C5: only create_cache(drop=True) removes or changes a stored row: every
\* other step (lookups, inserts, create_cache(drop=False), and every step of
\* a query that fails or is given up) keeps each stored row.
C5_OnlyResetDestroys ==
    [][\/ out'.op = "create_cache" /\ out'.drop
       \/ \A t \in CACHE_TABLES : rows[t] \subseteq rows'[t] /\ (t \in exists => t \in exists')]_vars

C5_Witness ==
    /\ Done
    /\ run.mode = "down"
    /\ ret.res = None
    /\ TotalRows(rows) > 0

\* C6: create_cache leaves every table existing; with drop=True every table
\* is empty afterwards, so a partition call with no insert since then puts
\* every requested key in tosearch; with drop=False a call made when the
\* tables exist changes nothing.
C6_CreateCache ==
    [][/\ (out'.op = "create_cache" => exists' = CACHE_TABLES)
       /\ (out'.op = "create_cache" /\ out'.drop =>
              \A t \in CACHE_TABLES : rows'[t] = {})
       /\ (out'.op = "in_cache" /\ inserted'[out'.table] = {} =>
              out'.incache = {} /\ Range(out'.tosearch) = Range(out'.req))
       /\ (out'.op = "create_cache" /\ ~out'.drop /\ exists = CACHE_TABLES =>
              rows' = rows /\ exists' = exists)]_vars

C6_Witness ==
    /\ out.op = "create_cache"
    /\ out.drop
    /\ out.had > 0

AllTokens == Range(groupeids)

C7_Safe ==
    run.mode = "threshold" =>
        /\ Len(log) <= 2 * run.n - 1
        /\ \A j \in 1..Len(log) : log[j].q.scopes = << >>
        /\ (Done => /\ ret.res = ListRef
                    /\ acc = [j \in 1..run.n |-> [id |-> j, toks |-> AllTokens]])

\* C7: with an adapter that fails exactly for more than k >= 1 identifiers
\* the call ends, no query carries a scoping clause, at most 2n-1 adapter
\* calls are made, and the finished call returns the list holding one
\* result per identifier.
C7_ThresholdAdapter ==
    /\ []C7_Safe
    /\ (run # Idle /\ run.mode = "threshold") ~> Done

C7_Witness ==
    /\ Done
    /\ run.mode = "threshold"
    /\ run.n = 3
    /\ Len(log) = 5

TierSteps == {j \in 1..(Len(stack) - 1) : stack[j + 1].query # stack[j].query}

C8_Safe ==
    run # Idle =>
        /\ Len(log) <= 20 * run.n - 1
        /\ Cardinality(TierSteps) <= 1
        /\ \A j \in 1..(Len(stack) - 1) :
              \/ /\ stack[j + 1].query = stack[j].query
                 /\ Len(stack[j + 1].group) < Len(stack[j].group)
              \/ /\ Len(stack[j].group) = 1
                 /\ stack[j].query.scopes = << >>
                 /\ Len(stack[j + 1].query.scopes) = 1
                 /\ Len(stack[j + 1].group) = 5

\* C8: whatever the adapter does the call ends; each call on the stack has
\* a strictly smaller group than its caller or is the one step from an
\* unscoped single identifier into the five-token fallback tier, and a run
\* over n identifiers makes at most 20n-1 adapter calls.
C8_BoundedCalls ==
    /\ []C8_Safe
    /\ (run # Idle) ~> Done

C8_Witness ==
    /\ Done
    /\ run.n >= 2
    /\ Len(log) = 20 * run.n - 1

GivenUp(e) == ~e.ok /\ e.q.scopes # << >> /\ Len(e.q.scopes[Len(e.q.scopes)]) = 1

\* C9: no query carries more than one scoping clause, no branch of the
\* recursion holds two fallback tiers, and the call after a failing scoped
\* single-token query is never a call made by that failing call.
C9_FallbackOnce ==
    /\ \A j \in 1..Len(log) : Len(log[j].q.scopes) <= 1
    /\ Cardinality(TierSteps) <= 1
    /\ \A j \in 1..(Len(log) - 1) : GivenUp(log[j]) => log[j + 1].depth <= log[j].depth

C9_Witness ==
    \E j \in 1..(Len(log) - 1) : GivenUp(log[j]) /\ log[j + 1].q.scopes # << >>

\* The records of the value the top-level call returned.
Returned == IF ret.res = ListRef THEN acc ELSE << >>

\* C10: the value the top-level call returns holds every record of every
\* successful adapter call of the run.
C10_PartialResultsReturned ==
    Done => \A j \in 1..Len(log) :
                log[j].ok => Range(Results(log[j].q)) \subseteq Range(Returned)

\* C11: a failing scoped single-token call returns the accumulator it was
\* given, its contents unchanged, together with the counter it was given.
C11_GiveUpReturnsAccumulator ==
    [][(Len(log') = Len(log) + 1 /\ GivenUp(log'[Len(log')])) =>
          /\ ret'.kind = "return"
          /\ ret'.res = ListRef
          /\ ret'.i = stack[Len(stack)].i
          /\ acc' = acc]_vars

\* C14: no Scopus400Error, ScopusQueryError or Scopus500Error of the adapter
\* leaves stacked_query: every failed call is answered by a split, the
\* fallback tier or a give-up, and every call of stacked_query returns.
C14_Answered ==
    LET e == log'[Len(log')]
        f == stack[Len(stack)]
        child == stack'[Len(stack')]
    IN  \/ /\ Len(f.group) > 1
           /\ Len(stack') = Len(stack) + 1
           /\ child.pc = "try" /\ child.query = f.query
        \/ /\ Len(f.group) = 1 /\ e.q.scopes = << >>
           /\ Len(stack') = Len(stack) + 1
           /\ child.pc = "try" /\ child.query.scopes # << >>
        \/ /\ Len(f.group) = 1 /\ e.q.scopes # << >>
           /\ Len(stack') = Len(stack) - 1
           /\ ret'.kind = "return"

C14_NoErrorEscapes ==
    /\ [](ret.kind # "raise")
    /\ [][(Len(log') = Len(log) + 1 /\ ~log'[Len(log')].ok) => C14_Answered]_vars
    /\ ((run # Idle) ~> Done)

C14_Witness ==
    /\ Done
    /\ \E a, b, c \in 1..Len(log) :
          /\ ~log[a].ok /\ Len(log[a].q.ids) > 1
          /\ ~log[b].ok /\ Len(log[b].q.ids) = 1 /\ log[b].q.scopes = << >>
          /\ GivenUp(log[c])

\* C15: the tables keyed by (identifier, year) are partitioned by the whole
\* key: when both (id, y1) and (id, y2) are requested and only (id, y1) is
\* stored, (id, y1) is in incache and (id, y2) is in tosearch.
C15_PartitionByFullKey ==
    out.op = "in_cache" =>
        \A k1, k2 \in Range(out.req) :
            (/\ Len(k1) = 2
             /\ k1[1] = k2[1]
             /\ k1 \in Keys(rows[out.table])
             /\ k2 \notin Keys(rows[out.table]))
            => /\ k1 \in Keys(out.incache) /\ k1 \notin Range(out.tosearch)
               /\ k2 \in Range(out.tosearch) /\ k2 \notin Keys(out.incache)

C15_Witness ==
    /\ out.op = "in_cache"
    /\ out.table = "sources"
    /\ \E k1 \in Keys(out.incache) : \E j \in 1..Len(out.tosearch) :
          out.tosearch[j][1] = k1[1] /\ out.tosearch[j][2] # k1[2]

\* The group of a logged call: its identifiers, or its suffix tokens when
\* the query is scoped.
GroupOf(e) == IF e.q.scopes = << >> THEN e.q.ids ELSE e.q.scopes[Len(e.q.scopes)]

\* The calls made, directly or not, by the logged call j.
Below(j) ==
    {k \in (j + 1)..Len(log) : \A h \in (j + 1)..k : log[h].depth > log[j].depth}

\* The part of the group of call j that the later call k works on.
PartOf(j, k) ==
    IF log[j].q.scopes = << >> THEN Range(log[k].q.ids) ELSE Range(GroupOf(log[k]))

C16_Order ==
    \A j \in 1..Len(log) :
        (~log[j].ok /\ Len(GroupOf(log[j])) > 1) =>
            LET g == GroupOf(log[j])
                mid == Len(g) \div 2
                first == SubSeq(g, 1, mid)
                second == SubSeq(g, mid + 1, Len(g))
                InSecond == {k \in Below(j) : PartOf(j, k) \subseteq Range(second)}
            IN  /\ \A k \in Below(j) : \/ PartOf(j, k) \subseteq Range(first)
                                       \/ PartOf(j, k) \subseteq Range(second)
                /\ \A a, b \in Below(j) : (a < b /\ a \in InSecond) => b \in InSecond
                /\ j < Len(log) => /\ GroupOf(log[j + 1]) = first
                                   /\ log[j + 1].depth = log[j].depth + 1
                /\ \A k \in InSecond : (\A h \in InSecond : k <= h) =>
                      /\ GroupOf(log[k]) = second
                      /\ log[k].depth = log[j].depth + 1

C16_Handoff ==
    LET f == stack[Len(stack)]
        child == stack'[Len(stack')]
    IN  /\ Len(stack') = Len(stack) + 1
        /\ child.pc = "try"
        /\ child.group = SubSeq(f.group, Len(f.group) \div 2 + 1, Len(f.group))
        /\ child.i = ret.i
        /\ child.res = ret.res
        /\ acc' = acc /\ log' = log

\* C16: a failing group of more than one element is split at floor(len/2);
\* every adapter call for the first half comes before any call for the
\* second half, and the call for the second half is given the accumulator
\* and the counter that the call for the first half returned.
C16_SplitInSequence ==
    /\ [](C16_Order)
    /\ [][(/\ stack # << >>
           /\ stack[Len(stack)].pc = "first"
           /\ Len(stack[Len(stack)].group) > 1
           /\ ret.kind = "return"
           /\ stack' # stack) => C16_Handoff]_vars

\* The frame of a call that has started the fallback tier.
IsTierParent(f) ==
    /\ f.pc \in {"first", "second"}
    /\ f.query.scopes = << >>
    /\ f.params.query.scopes # << >>

C17_Entry ==
    \A j \in 1..Len(log) :
        LET e == log[j]
        IN  /\ e.q.scopes # << >> =>
                 /\ Len(e.q.ids) = 1
                 /\ \E p \in 1..(j - 1) :
                       /\ ~log[p].ok /\ log[p].q.scopes = << >>
                       /\ log[p].q.ids = e.q.ids
                       /\ j \in Below(p)
            /\ (~e.ok /\ e.q.scopes = << >> /\ Len(e.q.ids) >= 2 /\ j < Len(log)) =>
                 log[j + 1].q.scopes = << >>
            /\ (~e.ok /\ e.q.scopes = << >> /\ Len(e.q.ids) = 1) =>
                 LET upper == {k \in Below(j) : Range(GroupOf(log[k])) \subseteq 5..9}
                 IN  /\ j < Len(log) =>
                          /\ log[j + 1].q = [ids |-> e.q.ids, scopes |-> <<<<0, 1, 2, 3, 4>>>>]
                          /\ log[j + 1].depth = e.depth + 1
                     /\ \A k \in upper : (\A h \in upper : k <= h) =>
                          /\ GroupOf(log[k]) = <<5, 6, 7, 8, 9>>
                          /\ log[k].depth = e.depth + 1
                     /\ \A a, b \in Below(j) : (a < b /\ a \in upper) => b \in upper

C17_Counter ==
    \A p \in 1..Len(stack) :
        IsTierParent(stack[p]) =>
            /\ \A k \in (p + 1)..Len(stack) :
                  stack[k].total = NoTotal /\ stack[k].i = stack[p].i
            /\ ret.kind = "return" => ret.i = stack[p].i

RECURSIVE Resolved(_)
Resolved(l) ==
    IF l = << >> THEN 0
    ELSE LET e == l[Len(l)]
         IN  Resolved(SubSeq(l, 1, Len(l) - 1))
               + (IF e.ok /\ e.q.scopes = << >> THEN Len(e.q.ids) ELSE 0)

\* The counter as it stands: of the call about to query, or just returned.
Counter == IF ret.kind = "return" THEN ret.i ELSE Top.i

\* C18: started with i = 0 and total = n, the counter goes up by the size
\* of the group exactly when a call outside the fallback tier succeeds; it
\* stays within 0..n; the counter returned is the number of identifiers
\* resolved by such calls, which is n when no identifier needed the tier;
\* with no total the counter returned is the counter given.
C18_ProgressAccounting ==
    (run # Idle /\ (stack # << >> \/ ret.kind = "return")) =>
        /\ \A k \in 1..Len(stack) : stack[k].i \in 0..run.n
        /\ Counter \in 0..run.n
        /\ run.total = run.n => Counter = Resolved(log)
        /\ run.total = NoTotal => Counter = 0
        /\ (Done /\ run.total = run.n /\ \A j \in 1..Len(log) : log[j].q.scopes = << >>)
              => ret.i = run.n

C18_Witness ==
    /\ Done
    /\ run.total = run.n
    /\ ret.i > 0 /\ ret.i < run.n
    /\ \E j \in 1..Len(log) : log[j].ok /\ log[j].q.scopes # << >>

\* The records of the successful calls of l, in the order of the calls.
RECURSIVE Fetched(_)
Fetched(l) ==
    IF l = << >> THEN << >>
    ELSE LET e == l[Len(l)]
             front == Fetched(SubSeq(l, 1, Len(l) - 1))
         IN  IF e.ok
             THEN front \o (IF e.q.scopes = << >>
                            THEN [j \in 1..Len(e.q.ids) |->
                                    [id |-> e.q.ids[j], toks |-> 0..9]]
                            ELSE [j \in 1..Len(GroupOf(e)) |->
                                    [id |-> e.q.ids[1], toks |-> {GroupOf(e)[j]}]])
             ELSE front

\* Record a stands left of record b in the group: an earlier identifier,
\* or the same identifier and earlier suffix tokens.
LeftOf(a, b) ==
    \/ a.id < b.id
    \/ a.id = b.id /\ \A s \in a.toks, t \in b.toks : s < t

C20_Ordered ==
    run # Idle =>
        /\ Len(acc) >= run.prior
        /\ \A j \in 1..run.prior : acc[j].id = 0
        /\ SubSeq(acc, run.prior + 1, Len(acc)) = Fetched(log)
        /\ \A a, b \in (run.prior + 1)..Len(acc) : a < b => LeftOf(acc[a], acc[b])

\* C20: the accumulator only grows at its end: what it held on entry stays
\* an unchanged prefix, and the records after it are the results of the
\* successful adapter calls in the order of the calls, which is the order
\* of the identifiers in the group from left to right.
C20_AppendOnly ==
    /\ [](C20_Ordered)
    /\ [][(run # Idle /\ run' = run) =>
             (Len(acc') >= Len(acc) /\ SubSeq(acc', 1, Len(acc)) = acc)]_vars

C20_Witness ==
    /\ Done
    /\ run.prior = 1
    /\ Len(acc) >= 4
    /\ \E a, b \in 1..Len(log) : a < b /\ ~log[a].ok /\ log[b].ok
    /\ \E j \in 2..Len(acc) : acc[j].toks # 0..9
    /\ \E j \in 2..Len(acc) : acc[j].toks = 0..9

QueryOver == wq.pc \in {"returned", "raised"}

Contacts == Cardinality({j \in 1..Len(wq.attempts) : wq.attempts[j].contacted})

\* C12: query contacts the service at most twice; it makes the second
\* attempt exactly when the first one failed with KeyError,
\* UnicodeDecodeError or ValueError; when the second attempt fails in the
\* same way the error is raised to the caller and query does not return.
C12_RetryOnceThenPropagate ==
    wq # NoQuery =>
        LET att == wq.attempts
            Decode == {"KeyError", "UnicodeDecodeError", "ValueError"}
        IN  /\ Contacts <= 2
            /\ Len(att) >= 2 => att[1].contacted /\ att[1].err \in Decode
            /\ (QueryOver /\ att[1].contacted /\ att[1].err \in Decode) => Len(att) = 2
            /\ (QueryOver /\ Len(att) = 2 /\ att[2].err \in Decode) =>
                  wq.pc = "raised" /\ wq.result = att[2].err

C19_EachRecordOnce ==
    (jr.pc = "return" /\ jr.fallback) =>
        /\ Range(acc) = Range(Fetched(log))
        /\ \A r \in Range(acc) : Cardinality({j \in 1..Len(acc) : acc[j] = r}) = 1
====
